---- MODULE Spec2Model ----
(***************************************************************************)
(* Water Sort Puzzle: the puzzle state model (WaterSortPuzzle) and the A*  *)
(* search driver (a_star_solver) of src/solver.py.                         *)
(*                                                                         *)
(* Representation.  A color is an integer: 0 is the empty marker '' and    *)
(* 1..NumColors are 'A', 'B', ...; the integer order is Python's string    *)
(* order ('' < 'A' < 'B').  A tube is a sequence of Capacity slots and a   *)
(* state a sequence of NumTubes tubes.  Sequences are 1-based: slot i of   *)
(* the model is index i-1 of the Python list, tube t is tube index t-1,    *)
(* and a move <<s, d>> is the Python tuple (s-1, d-1).  The shift keeps    *)
(* every order comparison the code makes.                                  *)
(***************************************************************************)
EXTENDS Integers, Sequences, FiniteSets, TLC

\* Bounds of the model
NumTubes == 3
Capacity == 2
NumColors == 2
MaxPops == 250

Empty == 0
NoneColor == -1
NoMove == <<0, 0>>

VARIABLES
    tubes,            \* puzzle.tubes, the one mutable state object
    initial_state,    \* the tubes the puzzle was constructed with
    priority_queue,   \* the frontier, least entry first
    visited_states,   \* set of state tuples already expanded
    pc,               \* "loop", "expand", "returned"; "puzzle" outside a solve
    cost,             \* locals of the current loop iteration
    current_state,
    path,
    valid_moves,      \* moves of the for loop not yet iterated
    move,             \* the move last handed to apply_move
    result,           \* the return value of a_star_solver
    pops,             \* history: number of heappop calls
    calls_get_valid_moves,  \* history: number of get_valid_moves calls
    calls_apply_move,       \* history: number of apply_move calls
    pushes,           \* history: number of child nodes pushed
    expanded,         \* history: the state tuples marked visited, in order
    pushed            \* history: the entries handed to heappush, in order

vars == <<tubes, initial_state, priority_queue, visited_states, pc, cost,
          current_state, path, valid_moves, move, result, pops,
          calls_get_valid_moves, calls_apply_move, pushes, expanded, pushed>>

Min(a, b) == IF a < b THEN a ELSE b

Slots == 1..Capacity
TubeIds == 1..NumTubes
Colors == 1..NumColors

\* occupied slots contiguous from the bottom
Contiguous(tube) ==
    \A i \in 1..Len(tube) : \A j \in 1..Len(tube) :
        (i < j /\ tube[j] # Empty) => tube[i] # Empty

ValidTubes == {t \in [Slots -> (Colors \cup {Empty})] : Contiguous(t)}
ValidStates == [TubeIds -> ValidTubes]

\* Mid-game positions of the two-color puzzle with four tubes of capacity
\* four: four units of each color, no tube empty and no tube full.
MidGameTubes ==
    {t \in [1..4 -> 0..2] : Contiguous(t) /\ t[1] # Empty /\ t[4] = Empty}
MidGameStates ==
    {s \in [1..4 -> MidGameTubes] :
        \A c \in 1..2 :
            Cardinality({x \in (1..4) \X (1..4) : s[x[1]][x[2]] = c}) = 4}

\* the states a_star_solver is started on
InitialStates == ValidStates \cup MidGameStates

(***************************************************************************)
(* WaterSortPuzzle                                                         *)
(***************************************************************************)

\* faulty variant: len(tube) instead of len(set(tube))
DistinctValuesLen(tube) == Len(tube)

\* faulty variant: the empty marker is not counted as a value
DistinctColors(tube) ==
    Cardinality({tube[i] : i \in {k \in 1..Len(tube) : tube[k] # Empty}})

\* len(set(tube))
DistinctValues(tube) == Cardinality({tube[i] : i \in 1..Len(tube)})

RECURSIVE is_solved_from(_, _)
is_solved_from(ts, t) ==
    IF t > Len(ts) THEN TRUE
    ELSE IF DistinctValues(ts[t]) > 1 THEN FALSE
    ELSE is_solved_from(ts, t + 1)

is_solved(ts) == is_solved_from(ts, 1)

\* any(color != '' for color in tube)
AnyColor(tube) == \E i \in 1..Len(tube) : tube[i] # Empty

\* tube.count('')
CountEmpty(tube) == Cardinality({i \in 1..Len(tube) : tube[i] = Empty})

\* for color in reversed(tube): if color != '': ...; break
RECURSIVE TopColorFrom(_, _)
TopColorFrom(tube, i) ==
    IF i = 0 THEN NoneColor
    ELSE IF tube[i] # Empty THEN tube[i]
    ELSE TopColorFrom(tube, i - 1)

TopColor(tube) == TopColorFrom(tube, Len(tube))

\* faulty variant: the test from_tube == to_tube is missing
MoveAppendedNoSelfTest(ts, from_tube, to_tube) ==
    IF ~AnyColor(ts[to_tube]) THEN TRUE
    ELSE TopColor(ts[to_tube]) = TopColor(ts[from_tube])
         /\ CountEmpty(ts[to_tube]) > 0

\* faulty variant: the test count('') > 0 is missing
MoveAppendedNoRoomTest(ts, from_tube, to_tube) ==
    IF from_tube = to_tube THEN FALSE
    ELSE IF ~AnyColor(ts[to_tube]) THEN TRUE
    ELSE TopColor(ts[to_tube]) = TopColor(ts[from_tube])

\* body of the inner loop of get_valid_moves: is (from_tube, to_tube) appended
MoveAppended(ts, from_tube, to_tube) ==
    IF from_tube = to_tube THEN FALSE
    ELSE IF ~AnyColor(ts[to_tube]) THEN TRUE
    ELSE TopColor(ts[to_tube]) = TopColor(ts[from_tube])
         /\ CountEmpty(ts[to_tube]) > 0

RECURSIVE MovesTo(_, _, _)
MovesTo(ts, from_tube, to_tube) ==
    IF to_tube > Len(ts) THEN <<>>
    ELSE (IF MoveAppended(ts, from_tube, to_tube)
          THEN <<(<<from_tube, to_tube>>)>> ELSE <<>>)
         \o MovesTo(ts, from_tube, to_tube + 1)

RECURSIVE MovesFrom(_, _)
MovesFrom(ts, from_tube) ==
    IF from_tube > Len(ts) THEN <<>>
    ELSE (IF ~AnyColor(ts[from_tube]) THEN <<>>
          ELSE MovesTo(ts, from_tube, 1))
         \o MovesFrom(ts, from_tube + 1)

get_valid_moves(ts) == MovesFrom(ts, 1)

\* first loop of apply_move: <<from_color, num_to_move>>
RECURSIVE TopRunFrom(_, _, _, _)
TopRunFrom(tube, i, from_color, num_to_move) ==
    IF i = 0 THEN <<from_color, num_to_move>>
    ELSE IF tube[i] # Empty
         THEN IF from_color = NoneColor
              THEN TopRunFrom(tube, i - 1, tube[i], 1)
              ELSE IF tube[i] = from_color
                   THEN TopRunFrom(tube, i - 1, from_color, num_to_move + 1)
                   ELSE <<from_color, num_to_move>>
         ELSE TopRunFrom(tube, i - 1, from_color, num_to_move)

TopRun(tube) == TopRunFrom(tube, Len(tube), NoneColor, 0)

\* faulty variant: the scan runs from the bottom and takes the lowest unit
BottomIndex(tube) ==
    IF ~AnyColor(tube) THEN 0
    ELSE CHOOSE i \in 1..Len(tube) :
        tube[i] # Empty /\ \A j \in 1..(i - 1) : tube[j] = Empty

\* index of the topmost occupied slot, 0 if none
RECURSIVE TopIndexFrom(_, _)
TopIndexFrom(tube, i) ==
    IF i = 0 THEN 0
    ELSE IF tube[i] # Empty THEN i
    ELSE TopIndexFrom(tube, i - 1)

TopIndex(tube) == TopIndexFrom(tube, Len(tube))

\* the empty slot the destination loop of apply_move picks (0 if none)
RECURSIVE LowestEmptyFrom(_, _)
LowestEmptyFrom(tube, i) ==
    IF i > Len(tube) THEN 0
    ELSE IF tube[i] = Empty THEN i
    ELSE LowestEmptyFrom(tube, i + 1)

\* faulty variant: the destination is filled from the top
HighestEmpty(tube) ==
    IF CountEmpty(tube) = 0 THEN 0
    ELSE CHOOSE i \in 1..Len(tube) :
        tube[i] = Empty /\ \A j \in 1..Len(tube) : tube[j] = Empty => j <= i

DestSlot(tube) == LowestEmptyFrom(tube, 1)

\* faulty variant: the source slot is not cleared
PourOneKeepSource(ts, from_tube, to_tube) ==
    LET i == TopIndex(ts[from_tube])
        j == DestSlot(ts[to_tube])
    IN  IF i = 0 \/ j = 0 THEN ts
        ELSE [ts EXCEPT ![to_tube][j] = ts[from_tube][i]]

\* one iteration of the transfer loop of apply_move: the topmost unit of the
\* source is cleared and written to the lowest empty slot of the destination.
\* The loop runs num_to_move times, which is at most the length of the top
\* run of the source, so the source scan always finds a unit.
PourOne(ts, from_tube, to_tube) ==
    LET i == TopIndex(ts[from_tube])
        color == ts[from_tube][i]
        t1 == [ts EXCEPT ![from_tube][i] = Empty]
        j == DestSlot(t1[to_tube])
    IN  IF i = 0 THEN ts
        ELSE IF j = 0 THEN t1
        ELSE [t1 EXCEPT ![to_tube][j] = color]

\* for _ in range(num_to_move): the state after n more iterations.  (The
\* state after one iteration is bound as a value before the next one runs.)
RECURSIVE PourLoop(_, _, _, _)
PourLoop(ts, from_tube, to_tube, n) ==
    IF n = 0 THEN ts
    ELSE CHOOSE r \in {PourLoop(next, from_tube, to_tube, n - 1) :
                          next \in {PourOne(ts, from_tube, to_tube)}} : TRUE

\* faulty variant: the whole top run is moved whatever room there is
UnitsAll(num_to_move, empty_slots) == num_to_move

\* num_to_move = min(num_to_move, empty_slots)
UnitsToMove(num_to_move, empty_slots) == Min(num_to_move, empty_slots)

apply_move(ts, m) ==
    LET from_tube == m[1]
        to_tube == m[2]
        run == TopRun(ts[from_tube])
        empty_slots == CountEmpty(ts[to_tube])
        num_to_move == UnitsToMove(run[2], empty_slots)
    IN  PourLoop(ts, from_tube, to_tube, num_to_move)

\* undo_move: the topmost unit of to_tube is cleared, then color is written
\* to the lowest empty slot of from_tube; each loop stops at its first hit
undo_move(ts, m, color) ==
    LET from_tube == m[1]
        to_tube == m[2]
        i == TopIndex(ts[to_tube])
        t1 == IF i = 0 THEN ts ELSE [ts EXCEPT ![to_tube][i] = Empty]
        j == LowestEmptyFrom(t1[from_tube], 1)
    IN  IF j = 0 THEN t1 ELSE [t1 EXCEPT ![from_tube][j] = color]

\* faulty variant: the test len(unique_colors) > 0 is missing
heuristic_tube_all_empties(tube) ==
    LET unique_colors == {tube[i] : i \in {k \in 1..Len(tube) : tube[k] # Empty}}
    IN  (IF Cardinality(unique_colors) > 1
         THEN Cardinality(unique_colors) - 1 ELSE 0)
        + (IF CountEmpty(tube) > 0 THEN CountEmpty(tube) ELSE 0)

\* faulty variant: only the mixed colors are counted
heuristic_tube_mixed_only(tube) ==
    LET unique_colors == {tube[i] : i \in {k \in 1..Len(tube) : tube[k] # Empty}}
    IN  IF Cardinality(unique_colors) > 1
        THEN Cardinality(unique_colors) - 1 ELSE 0

heuristic_tube(tube) ==
    LET unique_colors == {tube[i] : i \in {k \in 1..Len(tube) : tube[k] # Empty}}
    IN  (IF Cardinality(unique_colors) > 1
         THEN Cardinality(unique_colors) - 1 ELSE 0)
        + (IF CountEmpty(tube) > 0 /\ Cardinality(unique_colors) > 0
           THEN CountEmpty(tube) ELSE 0)

RECURSIVE heuristic_from(_, _)
heuristic_from(ts, t) ==
    IF t > Len(ts) THEN 0
    ELSE heuristic_tube(ts[t]) + heuristic_from(ts, t + 1)

heuristic(ts) == heuristic_from(ts, 1)

(***************************************************************************)
(* a_star_solver                                                           *)
(***************************************************************************)

\* Python's order on lists (and tuples) of integers or strings
ListLess(x, y) ==
    \E k \in 1..Len(y) :
        /\ k <= Len(x) + 1
        /\ \A j \in 1..(k - 1) : x[j] = y[j]
        /\ (k = Len(x) + 1 \/ x[k] < y[k])

\* Python's order on lists of lists (a state) and lists of tuples (a path)
NestedLess(x, y) ==
    \E k \in 1..Len(y) :
        /\ k <= Len(x) + 1
        /\ \A j \in 1..(k - 1) : x[j] = y[j]
        /\ (k = Len(x) + 1 \/ ListLess(x[k], y[k]))

\* a frontier entry: the tuple (total_cost, cost, state, path)
Node(total_cost, g, state, p) ==
    [total_cost |-> total_cost, cost |-> g, state |-> state, path |-> p]

\* the tuple order heapq compares entries with
NodeLess(a, b) ==
    \/ a.total_cost < b.total_cost
    \/ /\ a.total_cost = b.total_cost
       /\ \/ a.cost < b.cost
          \/ /\ a.cost = b.cost
             /\ \/ NestedLess(a.state, b.state)
                \/ /\ a.state = b.state
                   /\ NestedLess(a.path, b.path)

\* The frontier is held as the sequence of its entries in ascending NodeLess
\* order.  heapq keeps the same entries in a binary-heap array; what the
\* solver observes is only that heappop returns the least entry.

\* faulty variant: the least entry is read but stays on the frontier
heappopPeek(q) == [node |-> Head(q), rest |-> q]

\* heapq.heappop: the least entry and the frontier without it
heappop(q) == [node |-> Head(q), rest |-> Tail(q)]

\* the sequence q with node placed after its first k entries
InsertAt(q, k, node) == SubSeq(q, 1, k) \o <<node>> \o SubSeq(q, k + 1, Len(q))

\* heapq.heappush: the entry goes after the k entries that are not greater
heappush(q, node) ==
    CHOOSE r \in {InsertAt(q, k, node) :
                     k \in {Cardinality({i \in 1..Len(q) :
                                            ~NodeLess(node, q[i])})}} : TRUE

\* faulty variant: a key that joins the colors of all tubes, losing the tube
\* boundaries and the empty slots
RECURSIVE JoinedKeyFrom(_, _)
JoinedKeyFrom(state, t) ==
    IF t > Len(state) THEN <<>>
    ELSE SelectSeq(state[t], LAMBDA c : c # Empty) \o JoinedKeyFrom(state, t + 1)

JoinedKey(state) == JoinedKeyFrom(state, 1)

\* tuple(tuple(tube) for tube in current_state)
state_tuple(state) ==
    [t \in 1..Len(state) |-> [i \in 1..Len(state[t]) |-> state[t][i]]]

\* faulty variant: the move is put in front of the path
PrependMove(p, m) == <<m>> \o p

\* new_path = path + [move]
new_path(p, m) == Append(p, m)

\* faulty variant: the visited test never finds a key
NeverVisited(key, visited) == FALSE

\* state_tuple in visited_states
AlreadyVisited(key, visited) == key \in visited

\* faulty variant: the priority has the wrong sign
total_cost_negated(g, heuristic_cost) == 0 - (g + 1 + heuristic_cost)

\* faulty variant: move_cost is left out of the key
total_cost_no_move_cost(g, heuristic_cost) == g + heuristic_cost

\* total_cost = cost + move_cost + heuristic_cost, with move_cost = 1
total_cost(g, heuristic_cost) == g + 1 + heuristic_cost

NotReturned == [returned |-> FALSE, none |-> FALSE, moves |-> <<>>]
ReturnPath(p) == [returned |-> TRUE, none |-> FALSE, moves |-> p]
ReturnNoneValue == [returned |-> TRUE, none |-> TRUE, moves |-> <<>>]

\* the state at the top of the while loop, before the first iteration; the
\* locals of the loop body are unbound in the code until the first pop
Init ==
    /\ initial_state \in InitialStates
    /\ tubes = initial_state
    /\ priority_queue = <<Node(0, 0, initial_state, <<>>)>>
    /\ pushed = <<Node(0, 0, initial_state, <<>>)>>
    /\ visited_states = {}
    /\ pc = "loop"
    /\ cost = 0
    /\ current_state = initial_state
    /\ path = <<>>
    /\ valid_moves = <<>>
    /\ move = NoMove
    /\ result = NotReturned
    /\ pops = 0
    /\ calls_get_valid_moves = 0
    /\ calls_apply_move = 0
    /\ pushes = 0
    /\ expanded = <<>>

CanPop == pc = "loop" /\ priority_queue # <<>> /\ pops < MaxPops

\* heappop and the assignments of line 157
PopLocals(popped) ==
    /\ priority_queue' = popped.rest
    /\ cost' = popped.node.cost
    /\ current_state' = popped.node.state
    /\ path' = popped.node.path
    /\ pops' = pops + 1

\* an iteration that pops a state already visited and continues
PopVisited ==
    /\ CanPop
    /\ \E popped \in {heappop(priority_queue)} :
           /\ AlreadyVisited(state_tuple(popped.node.state), visited_states)
           /\ PopLocals(popped)
    /\ UNCHANGED <<tubes, initial_state, visited_states, pc, valid_moves, move,
                   result, calls_get_valid_moves, calls_apply_move, pushes,
                   expanded, pushed>>

\* faulty variant: line 167 is missing, the puzzle keeps the tubes it had
TubesLeftAlone(old_tubes, state) == old_tubes

\* puzzle.tubes = copy.deepcopy(current_state) of line 167: the tubes that
\* is_solved and get_valid_moves then read
TubesAtCheck(old_tubes, state) == state

\* an iteration that pops a solved state and returns its path
PopSolved ==
    /\ CanPop
    /\ \E popped \in {heappop(priority_queue)} :
       \E key \in {state_tuple(popped.node.state)} :
       \E checked \in {TubesAtCheck(tubes, popped.node.state)} :
           /\ ~AlreadyVisited(key, visited_states)
           /\ is_solved(checked)
           /\ PopLocals(popped)
           /\ visited_states' = visited_states \cup {key}
           /\ expanded' = Append(expanded, key)
           /\ tubes' = checked
           /\ result' = ReturnPath(popped.node.path)
           /\ pc' = "returned"
    /\ UNCHANGED <<initial_state, valid_moves, move, calls_get_valid_moves,
                   calls_apply_move, pushes, pushed>>

\* an iteration that pops an unsolved new state and starts the for loop
PopExpand ==
    /\ CanPop
    /\ \E popped \in {heappop(priority_queue)} :
       \E key \in {state_tuple(popped.node.state)} :
       \E checked \in {TubesAtCheck(tubes, popped.node.state)} :
           /\ ~AlreadyVisited(key, visited_states)
           /\ ~is_solved(checked)
           /\ PopLocals(popped)
           /\ visited_states' = visited_states \cup {key}
           /\ expanded' = Append(expanded, key)
           /\ tubes' = checked
           /\ \E moves \in {get_valid_moves(checked)} :
                 /\ valid_moves' = moves
                 /\ pc' = IF moves = <<>> THEN "loop" ELSE "expand"
           /\ calls_get_valid_moves' = calls_get_valid_moves + 1
    /\ UNCHANGED <<initial_state, move, result, calls_apply_move, pushes,
                   pushed>>

\* faulty variant: puzzle.tubes = current_state without the copy, so the pour
\* writes through the alias into the popped node's state
ApplyInPlace(state, m) ==
    [tubes |-> apply_move(state, m), current_state |-> apply_move(state, m)]

\* lines 175-176: apply_move writes to a deep copy of current_state; the
\* record holds puzzle.tubes and the list current_state names afterwards
ApplyOnCopy(state, m) ==
    [tubes |-> apply_move(state, m), current_state |-> state]

\* one iteration of the for loop over valid_moves (lines 174-189)
ExpandMove ==
    /\ pc = "expand"
    /\ valid_moves # <<>>
    /\ \E m \in {Head(valid_moves)} :
       \E after \in {ApplyOnCopy(current_state, m)} :
       \E new_state \in {after.tubes} :
       \E heuristic_cost \in {heuristic(new_state)} :
       \E node \in {Node(total_cost(cost, heuristic_cost), cost + 1,
                         new_state, new_path(path, m))} :
           /\ move' = m
           /\ tubes' = new_state
           /\ current_state' = after.current_state
           /\ priority_queue' = heappush(priority_queue, node)
           /\ pushed' = Append(pushed, node)
    /\ calls_apply_move' = calls_apply_move + 1
    /\ pushes' = pushes + 1
    /\ valid_moves' = Tail(valid_moves)
    /\ pc' = IF Tail(valid_moves) = <<>> THEN "loop" ELSE "expand"
    /\ UNCHANGED <<initial_state, visited_states, cost, path, result, pops,
                   calls_get_valid_moves, expanded>>

\* the frontier is empty: return None
ReturnNone ==
    /\ pc = "loop"
    /\ priority_queue = <<>>
    /\ result' = ReturnNoneValue
    /\ pc' = "returned"
    /\ UNCHANGED <<tubes, initial_state, priority_queue, visited_states, cost,
                   current_state, path, valid_moves, move, pops,
                   calls_get_valid_moves, calls_apply_move, pushes, expanded,
                   pushed>>

Next == PopVisited \/ PopSolved \/ PopExpand \/ ExpandMove \/ ReturnNone

Spec == Init /\ [][Next]_vars

\* a_star_solver is sequential code: it takes its next step whenever it has
\* one.  The runs checked for termination start from every state of
\* ValidStates.
LiveInit == Init /\ initial_state \in ValidStates

LiveSpec == LiveInit /\ [][Next]_vars /\ WF_vars(Next)

(***************************************************************************)
(* The puzzle object on its own: any valid state, driven by legal moves    *)
(* the way lines 175-176 drive it.                                         *)
(***************************************************************************)

PuzzleInit ==
    /\ initial_state \in ValidStates
    /\ tubes = initial_state
    /\ priority_queue = <<>>
    /\ pushed = <<>>
    /\ visited_states = {}
    /\ pc = "puzzle"
    /\ cost = 0
    /\ current_state = initial_state
    /\ path = <<>>
    /\ valid_moves = get_valid_moves(initial_state)
    /\ move = NoMove
    /\ result = NotReturned
    /\ pops = 0
    /\ calls_get_valid_moves = 0
    /\ calls_apply_move = 0
    /\ pushes = 0
    /\ expanded = <<>>

\* puzzle.apply_move(move) for a move of puzzle.get_valid_moves()
ApplyLegalMove ==
    /\ pc = "puzzle"
    /\ \E k \in 1..Len(valid_moves) :
        /\ move' = valid_moves[k]
        /\ current_state' = tubes
        /\ tubes' = apply_move(tubes, valid_moves[k])
        /\ valid_moves' = get_valid_moves(apply_move(tubes, valid_moves[k]))
    /\ UNCHANGED <<initial_state, priority_queue, visited_states, pc, cost,
                   path, result, pops, calls_get_valid_moves, calls_apply_move,
                   pushes, expanded, pushed>>

PuzzleNext == ApplyLegalMove

PuzzleSpec == PuzzleInit /\ [][PuzzleNext]_vars

(***************************************************************************)
(* Rollback: a legal move is applied to the puzzle object and then undone  *)
(* with the color that was on top of its source.                           *)
(***************************************************************************)

\* puzzle.undo_move(move, color) right after puzzle.apply_move(move); the
\* state before the pour stays in current_state
UndoLastMove ==
    /\ pc = "puzzle"
    /\ move # NoMove
    /\ \E color \in {TopColor(current_state[move[1]])} :
           tubes' = undo_move(tubes, move, color)
    /\ pc' = "undone"
    /\ UNCHANGED <<initial_state, priority_queue, visited_states, cost,
                   current_state, path, valid_moves, move, result, pops,
                   calls_get_valid_moves, calls_apply_move, pushes, expanded,
                   pushed>>

UndoNext == ApplyLegalMove \/ UndoLastMove

UndoSpec == PuzzleInit /\ [][UndoNext]_vars

(***************************************************************************)
(* Vocabulary of the properties                                            *)
(***************************************************************************)

Range(seq) == {seq[k] : k \in 1..Len(seq)}

\* the state reached by applying the moves of p in order
RECURSIVE Replay(_, _)
Replay(state, p) ==
    IF p = <<>> THEN state ELSE Replay(apply_move(state, Head(p)), Tail(p))

\* every move of p is a legal move of the state it is applied to
RECURSIVE PathLegal(_, _)
PathLegal(state, p) ==
    IF p = <<>> THEN TRUE
    ELSE /\ Head(p) \in Range(get_valid_moves(state))
         /\ PathLegal(apply_move(state, Head(p)), Tail(p))

\* the states one legal move away from a state of S
Successors(S) ==
    UNION {{apply_move(s, m) : m \in Range(get_valid_moves(s))} : s \in S}

\* breadth-first search: the least number of legal moves from a state of
\* frontier (at distance d) to a solved state, -1 if there is none
RECURSIVE MinSolveFrom(_, _, _)
MinSolveFrom(frontier, seen, d) ==
    IF \E s \in frontier : is_solved(s) THEN d
    ELSE IF frontier = {} THEN -1
    ELSE LET next == Successors(frontier) \ seen
         IN  MinSolveFrom(next, seen \cup next, d + 1)

MinSolveLength(state) == MinSolveFrom({state}, {state}, 0)

SolvedReachable(state) == MinSolveLength(state) >= 0

\* every slot of every tube holds the same value as the tube's other slots
AllTubesUniform(ts) ==
    \A t \in 1..Len(ts) : \A i \in 1..Len(ts[t]) : \A j \in 1..Len(ts[t]) :
        ts[t][i] = ts[t][j]

\* number of occupied slots of a tube
Occupied(tube) == Cardinality({i \in 1..Len(tube) : tube[i] # Empty})

\* color of the topmost occupied slot of a contiguous, non-empty tube
TopOf(tube) == tube[Occupied(tube)]

\* length of the run of the top color at the top of a contiguous tube
RunLength(tube) ==
    LET occ == Occupied(tube)
        runs == {k \in 1..occ :
                    \A i \in (occ - k + 1)..occ : tube[i] = tube[occ]}
    IN  IF occ = 0 THEN 0
        ELSE CHOOSE k \in runs : \A l \in runs : l <= k

\* occurrences of color c in a state
RECURSIVE ColorCountFrom(_, _, _)
ColorCountFrom(ts, c, t) ==
    IF t > Len(ts) THEN 0
    ELSE Cardinality({i \in 1..Len(ts[t]) : ts[t][i] = c})
         + ColorCountFrom(ts, c, t + 1)

ColorCount(ts, c) == ColorCountFrom(ts, c, 1)

ReturnedPath == pc = "returned" /\ ~result.none
ReturnedNone == pc = "returned" /\ result.none

(***************************************************************************)
(* Properties of a_star_solver (checked under Spec and LiveSpec)           *)
(***************************************************************************)

\* C1: a returned move list, applied in order from the initial state, ends in
\* a solved state, and each of its moves is one of get_valid_moves of the
\* state it is applied to.
C1_ReturnedPathSolves ==
    ReturnedPath =>
        /\ is_solved(Replay(initial_state, result.moves))
        /\ PathLegal(initial_state, result.moves)

C1_Witness == ReturnedPath /\ Len(result.moves) >= 2

\* C2: the length of a returned move list is the least number of legal moves
\* that lead from the initial state to a solved state.
C2_ReturnedPathMinimal ==
    ReturnedPath => Len(result.moves) = MinSolveLength(initial_state)

\* C2 as amended: a returned move list is never shorter than the least number
\* of legal moves to a solved state, and has exactly that length whenever
\* that number is at most 2.
C2_ReturnedPathAtLeastMinimal ==
    ReturnedPath =>
        \E least \in {MinSolveLength(initial_state)} :
            /\ Len(result.moves) >= least
            /\ least <= 2 => Len(result.moves) = least

C2_Witness ==
    /\ ReturnedPath
    /\ Len(result.moves) > MinSolveLength(initial_state)

\* C3: None is returned exactly when no solved state is reachable from the
\* initial state; an unsolved initial state without legal moves yields None.
C3_NoneIffUnsolvable ==
    pc = "returned" =>
        /\ result.none <=> ~SolvedReachable(initial_state)
        /\ (~is_solved(initial_state) /\ get_valid_moves(initial_state) = <<>>)
              => result.none

C3_Witness ==
    /\ ReturnedNone
    /\ get_valid_moves(initial_state) # <<>>
    /\ Len(expanded) >= 3

\* C4: for an initial state that is already solved, the first popped node
\* returns the empty move list; get_valid_moves and apply_move are never
\* called and no child node is ever pushed.
C4_SolvedInitialReturnsAtOnce ==
    AllTubesUniform(initial_state) =>
        /\ calls_get_valid_moves = 0
        /\ calls_apply_move = 0
        /\ pushes = 0
        /\ Len(priority_queue) <= 1
        /\ pops <= 1
        /\ pops = 1 => (pc = "returned" /\ result = ReturnPath(<<>>))
        /\ pc = "returned" => pops = 1

C4_Witness ==
    /\ AllTubesUniform(initial_state)
    /\ \E t \in TubeIds : AnyColor(initial_state[t])
    /\ pc = "returned"
    /\ result = ReturnPath(<<>>)

\* C5: every run of a_star_solver eventually returns.
C5_Terminates == <>(pc = "returned")

C5_Witness ==
    /\ pc = "returned"
    /\ Len(expanded) >= 5
    /\ pops > Len(expanded)

\* C12: no canonical key is expanded twice.  The keys marked visited are
\* pairwise different, each of them had one solved-check and (unless it was
\* solved) one child generation, children are generated only for the key
\* marked last, and every other pop was discarded without a push.
C12_NoReExpansion ==
    /\ \A i \in 1..Len(expanded) : \A j \in 1..Len(expanded) :
          i # j => expanded[i] # expanded[j]
    /\ Range(expanded) = visited_states
    /\ calls_get_valid_moves = Len(expanded) - (IF ReturnedPath THEN 1 ELSE 0)
    /\ pc = "expand" => state_tuple(current_state) = expanded[Len(expanded)]
    /\ pushes = calls_apply_move
    /\ (pc = "loop" /\ pops > 0 /\ state_tuple(current_state) # expanded[Len(expanded)])
          => state_tuple(current_state) \in visited_states

C12_Witness ==
    /\ pc = "loop"
    /\ pops >= Len(expanded) + 2
    /\ Len(expanded) >= 3
    /\ state_tuple(current_state) # expanded[Len(expanded)]

\* number of distinct colors 1, 2, ... held by a tube
DistinctColorCount(tube) ==
    Cardinality({c \in 1..NumColors : \E i \in 1..Len(tube) : tube[i] = c})

\* what a tube adds to the estimate: U - 1 for U > 1 distinct colors, plus
\* its empty slots when it has an empty slot and a color
TubeContribution(tube) ==
    LET U == DistinctColorCount(tube)
        e == Len(tube) - Occupied(tube)
    IN  (IF U > 1 THEN U - 1 ELSE 0) + (IF e >= 1 /\ U >= 1 THEN e ELSE 0)

RECURSIVE SumContributions(_, _)
SumContributions(ts, T) ==
    IF T = {} THEN 0
    ELSE LET t == CHOOSE x \in T : TRUE
         IN  TubeContribution(ts[t]) + SumContributions(ts, T \ {t})

EstimateOf(ts) == SumContributions(ts, 1..Len(ts))

\* the entry pushed last, when it is a child and not the seed
LastChild == pushed[Len(pushed)]

\* C13: heuristic is the sum over the tubes of (U - 1 if U > 1) plus (the
\* empty slots if the tube has an empty slot and a color); an entirely empty
\* tube and a tube full of one color add 0; the result is a natural number.
\* The estimate a pushed child carries is its key minus its cost.
C13_HeuristicFormula ==
    /\ heuristic(tubes) = EstimateOf(tubes)
    /\ heuristic(tubes) \in Nat
    /\ \A t \in 1..Len(tubes) :
          /\ heuristic(<<tubes[t]>>) = TubeContribution(tubes[t])
          /\ (Occupied(tubes[t]) = 0
               \/ (Occupied(tubes[t]) = Len(tubes[t])
                   /\ DistinctColorCount(tubes[t]) = 1))
                => heuristic(<<tubes[t]>>) = 0
    /\ Len(pushed) > 1 =>
          LastChild.total_cost - LastChild.cost = EstimateOf(LastChild.state)

C13_Witness ==
    /\ Len(pushed) > 1
    /\ tubes = LastChild.state
    /\ \E t \in 1..Len(tubes) :
          /\ DistinctColorCount(tubes[t]) = 2
          /\ Occupied(tubes[t]) < Len(tubes[t])
    /\ \E t \in 1..Len(tubes) : Occupied(tubes[t]) = 0
    /\ LastChild.total_cost - LastChild.cost >= 5

\* position of an entry in the order of the pushes (an entry is pushed once:
\* its path names the one expansion and the one move that produced it)
PushIndex(node) == CHOOSE i \in 1..Len(pushed) : pushed[i] = node

\* C14: the entry a heappop returns was pushed before every other frontier
\* entry of the same total cost (first in, first out among equal keys), so
\* no tie is ever decided by comparing the states of two entries.
C14_FifoTieBreak ==
    [][pops' # pops =>
          \A k \in 2..Len(priority_queue) :
              priority_queue[k].total_cost = Head(priority_queue).total_cost
                 => PushIndex(Head(priority_queue))
                       < PushIndex(priority_queue[k])]_vars

\* the sequence q without its k-th entry
WithoutEntry(q, k) == SubSeq(q, 1, k - 1) \o SubSeq(q, k + 1, Len(q))

\* C15: producing a child by applying a legal move leaves the popped node's
\* state as it was (it is still the state marked visited last, and the child
\* is that state with the move applied), and leaves every entry already on
\* the frontier, state and path, as it was: the frontier only gains the child.
C15_NodeIsolation ==
    [][calls_apply_move' # calls_apply_move =>
          /\ current_state' = current_state
          /\ path' = path
          /\ state_tuple(current_state') = expanded[Len(expanded)]
          /\ pushed'[Len(pushed')].state
                = apply_move(expanded[Len(expanded)], move')
          /\ SubSeq(pushed', 1, Len(pushed)) = pushed
          /\ \E k \in 1..Len(priority_queue') :
                /\ priority_queue'[k] = pushed'[Len(pushed')]
                /\ WithoutEntry(priority_queue', k) = priority_queue]_vars

C15_Witness ==
    /\ pc = "expand"
    /\ move # NoMove
    /\ Len(pushed) > 1
    /\ LastChild.path = Append(path, move)
    /\ tubes = apply_move(current_state, move)
    /\ tubes # current_state
    /\ state_tuple(current_state) = expanded[Len(expanded)]
    /\ Len(priority_queue) >= 3

\* C17: heuristic is 0 exactly for the states is_solved accepts, for the
\* tubes of the puzzle and for the estimate carried by every pushed child.
C17_ZeroIffSolved ==
    /\ heuristic(tubes) = 0 <=> is_solved(tubes)
    /\ Len(pushed) > 1 =>
          (LastChild.total_cost - LastChild.cost = 0
              <=> is_solved(LastChild.state))

C17_Witness ==
    /\ Len(pushed) > 1
    /\ tubes = LastChild.state
    /\ LastChild.total_cost = LastChild.cost
    /\ is_solved(tubes)
    /\ ~is_solved(current_state)
    /\ heuristic(current_state) >= 2

\* C19: when a move list is returned, the tubes of the puzzle object are the
\* state reached by applying the returned moves in order to the initial
\* state, a solved state; after a non-empty list they are not the initial
\* state.
C19_PuzzleLeftInFinalState ==
    ReturnedPath =>
        /\ tubes = Replay(initial_state, result.moves)
        /\ is_solved(tubes)
        /\ result.moves # <<>> => tubes # initial_state

C19_Witness ==
    /\ ReturnedPath
    /\ Len(result.moves) >= 2
    /\ tubes # initial_state
    /\ Len(pushed) > 1
    /\ LastChild.state # tubes

\* the entry pushed before the loop, for the initial state
IsSeed(node) == node.path = <<>>

\* C20: every entry on the frontier, the seed included, has a cost equal to
\* the number of moves of its path and a key equal to that cost plus the
\* heuristic of its own state.
C20_FrontierKeys ==
    \A k \in 1..Len(priority_queue) :
        \E node \in {priority_queue[k]} :
            /\ node.cost = Len(node.path)
            /\ node.total_cost = node.cost + heuristic(node.state)

\* C20 as amended: every entry on the frontier has a cost equal to the number
\* of moves of its path; every entry other than the seed has a key equal to
\* that cost plus the heuristic of its own state, and the seed has key 0.
C20_FrontierKeysExceptSeed ==
    \A k \in 1..Len(priority_queue) :
        \E node \in {priority_queue[k]} :
            /\ node.cost = Len(node.path)
            /\ IF IsSeed(node)
               THEN node.total_cost = 0 /\ node.state = initial_state
               ELSE node.total_cost = node.cost + heuristic(node.state)

C20_Witness ==
    /\ Len(priority_queue) >= 3
    /\ heuristic(initial_state) >= 2
    /\ \E k \in 1..Len(priority_queue) : priority_queue[k].cost >= 3
    /\ \E k \in 1..Len(priority_queue) : priority_queue[k].cost = 1

(***************************************************************************)
(* Properties of WaterSortPuzzle (checked under PuzzleSpec)                *)
(***************************************************************************)

\* the state has the tubes, capacities and color counts of the initial state
SameMass(ts) ==
    /\ \A c \in Colors \cup {Empty} :
          ColorCount(ts, c) = ColorCount(initial_state, c)
    /\ Len(ts) = Len(initial_state)
    /\ \A t \in 1..Len(ts) : Len(ts[t]) = Len(initial_state[t])

\* C6: in every state reachable by legal moves, and in every state on the
\* frontier, each color (and the empty marker) occurs as often as in the
\* initial state, and the number of tubes and every tube's capacity are
\* those of the initial state.
C6_MassConserved ==
    /\ SameMass(tubes)
    /\ \A k \in 1..Len(priority_queue) : SameMass(priority_queue[k].state)

C6_Witness ==
    /\ move # NoMove
    /\ tubes # initial_state
    /\ \E c \in Colors : ColorCount(tubes, c) >= 2

\* C7: every tube of every state reachable by legal moves from a valid state
\* has its occupied slots contiguous from the bottom slot upward.
C7_OccupancyContiguous == \A t \in 1..Len(tubes) : Contiguous(tubes[t])

C7_Witness ==
    /\ move # NoMove
    /\ Occupied(current_state[move[2]]) >= 1
    /\ Occupied(tubes[move[2]]) > Occupied(current_state[move[2]])

\* C8: a legal move (s, d) moves exactly min(n, e) units of the top color c of
\* s, n the length of the top run of s and e the empty slots of d: s loses its
\* top min(n, e) units, d gains them in its lowest empty slots, and when e < n
\* the rest of the run stays on top of s.
C8_PartialPour ==
    move # NoMove =>
        LET s == move[1]
            d == move[2]
            c == TopOf(current_state[s])
            n == RunLength(current_state[s])
            e == Capacity - Occupied(current_state[d])
            k == Min(n, e)
            occ_s == Occupied(current_state[s])
            occ_d == Occupied(current_state[d])
        IN  /\ k >= 1
            /\ tubes[s] = [i \in Slots |->
                              IF i > occ_s - k THEN Empty
                              ELSE current_state[s][i]]
            /\ tubes[d] = [i \in Slots |->
                              IF i > occ_d /\ i <= occ_d + k THEN c
                              ELSE current_state[d][i]]
            /\ e < n => /\ Occupied(tubes[s]) = occ_s - e
                        /\ TopOf(tubes[s]) = c
                        /\ RunLength(tubes[s]) = n - e

C8_Witness ==
    /\ move # NoMove
    /\ Capacity - Occupied(current_state[move[2]])
          < RunLength(current_state[move[1]])
    /\ TopOf(tubes[move[1]]) = TopOf(current_state[move[1]])

\* C9: (s, d) is returned by get_valid_moves exactly when s # d, tube s has
\* an occupied slot, and tube d is entirely empty or has an empty slot and
\* the same topmost color as s; no move from a tube onto itself is returned.
C9_LegalMoves ==
    \E legal \in {Range(get_valid_moves(tubes))} :
        /\ legal \subseteq TubeIds \X TubeIds
        /\ \A s \in TubeIds : \A d \in TubeIds :
              <<s, d>> \in legal <=>
                  /\ s # d
                  /\ Occupied(tubes[s]) >= 1
                  /\ \/ Occupied(tubes[d]) = 0
                     \/ /\ Occupied(tubes[d]) < Capacity
                        /\ TopOf(tubes[d]) = TopOf(tubes[s])
        /\ \A s \in TubeIds : <<s, s>> \notin legal

C9_Witness ==
    /\ move # NoMove
    /\ \E s \in TubeIds :
          /\ Occupied(tubes[s]) >= 1
          /\ Occupied(tubes[s]) < Capacity
          /\ \E d \in TubeIds \ {s} : <<d, s>> \in Range(get_valid_moves(tubes))
          /\ \E d \in TubeIds \ {s} :
                /\ Occupied(tubes[d]) >= 1
                /\ <<d, s>> \notin Range(get_valid_moves(tubes))

\* C10: is_solved is true exactly when every tube holds one value in all its
\* slots, the empty marker counting as a value: tubes full of one color or
\* entirely empty are solved, a color together with an empty slot is not.
C10_SolvedPredicate ==
    /\ is_solved(tubes) <=> AllTubesUniform(tubes)
    /\ (\A t \in TubeIds :
           Occupied(tubes[t]) = 0
           \/ (Occupied(tubes[t]) = Capacity /\ RunLength(tubes[t]) = Capacity))
          => is_solved(tubes)
    /\ (\E t \in TubeIds :
           Occupied(tubes[t]) >= 1 /\ Occupied(tubes[t]) < Capacity)
          => ~is_solved(tubes)

C10_Witness ==
    /\ move # NoMove
    /\ is_solved(tubes)
    /\ \E t \in TubeIds : Occupied(tubes[t]) = Capacity
    /\ \E t \in TubeIds : Occupied(tubes[t]) = 0
    /\ \E t \in TubeIds :
          Occupied(current_state[t]) >= 1 /\ Occupied(current_state[t]) < Capacity

\* C16: every move of get_valid_moves transfers at least one unit, so the
\* state after apply_move differs from the state before it.
C16_LegalMoveProgress ==
    /\ move # NoMove =>
          /\ tubes # current_state
          /\ Occupied(tubes[move[2]]) >= Occupied(current_state[move[2]]) + 1
          /\ Occupied(tubes[move[1]]) <= Occupied(current_state[move[1]]) - 1
    /\ \A k \in 1..Len(valid_moves) : apply_move(tubes, valid_moves[k]) # tubes

C16_Witness ==
    /\ move # NoMove
    /\ RunLength(current_state[move[1]]) = Capacity
    /\ Occupied(current_state[move[2]]) = Capacity - 1
    /\ Occupied(tubes[move[2]]) = Capacity
    /\ tubes # current_state

\* C18: a legal move (s, d) leaves every tube other than s and d unchanged,
\* every slot of s below the units poured unchanged, and every slot of d
\* that was occupied before the move unchanged.
C18_PourFrame ==
    move # NoMove =>
        LET s == move[1]
            d == move[2]
            k == Min(RunLength(current_state[s]),
                     Capacity - Occupied(current_state[d]))
        IN  /\ \A t \in TubeIds \ {s, d} : tubes[t] = current_state[t]
            /\ \A i \in 1..(Occupied(current_state[s]) - k) :
                  tubes[s][i] = current_state[s][i]
            /\ \A i \in 1..Occupied(current_state[d]) :
                  tubes[d][i] = current_state[d][i]

C18_Witness ==
    /\ move # NoMove
    /\ Occupied(current_state[move[1]]) = Capacity
    /\ Occupied(tubes[move[1]]) = Capacity - 1
    /\ Occupied(current_state[move[2]]) >= 1
    /\ \E t \in TubeIds \ {move[1], move[2]} : Occupied(tubes[t]) >= 1

(***************************************************************************)
(* Rollback (checked under UndoSpec)                                       *)
(***************************************************************************)

\* C11: undoing a legal move with the color that was on top of its source
\* restores every tube to its contents before the move, however many units
\* the pour transferred.
C11_UndoRestores == pc = "undone" => tubes = current_state

====
